---- MODULE Spec2Model ----
(***************************************************************************)
(* Ollender: LLM-driven calendar scheduling.                               *)
(*                                                                         *)
(* The model covers EventManager.create_event (single-round and multi-step *)
(* paths), MultiStepReasoner.run with its three stages, the chat session   *)
(* of OllamaConnector (ask, ask_continuous, reset_memory) and the parser   *)
(* _parse_llm_response.  Texts are sequences of characters; the members of *)
(* a JSON object are held beside the text and stand where the character    *)
(* "@" stands in it.                                                       *)
(***************************************************************************)
EXTENDS Integers, Sequences, FiniteSets, TLC

VARIABLES
    multi,          \* EventManager.multi
    messages,       \* OllamaConnector.messages, the conversation history
    pc,             \* position inside create_event / MultiStepReasoner.run
    clock,          \* the wall clock datetime.now() reads
    start_time,     \* MultiStepReasoner.start_time
    event,          \* the caller's Event handed to create_event
    slots,          \* parsed event_data of the stages of the current run
    prompts,        \* the prompt each stage of the current call built
    replies,        \* what the chat session returned to each stage
    requests,       \* the message list each stage sent to client.chat
    runLog,         \* what the current run did, in order
    resets,         \* reset_memory calls observed in the current call
    result,         \* how the current create_event call ended
    error,          \* the failure the current call met
    logged,         \* whether create_event logged that failure
    calendar,       \* events handed to calendar.create_event, in order
    writes,         \* calendar.create_event calls made by the current call
    committed,      \* events inserted into the Google calendar, in order
    cal_return,     \* what the last calendar.create_event call gave back
    system_prompt,  \* whether OllamaConnector.system_prompt is set
    calls,          \* the ask_continuous calls since construction or reset
    last,           \* the last call made on the chat session
    response_str,   \* the model text handed to _parse_llm_response
    llm_response    \* what _parse_llm_response made of it

vars == <<multi, messages, pc, clock, start_time, event, slots, prompts,
          replies, requests, runLog, resets, result, error, logged, calendar,
          writes, committed, cal_return, system_prompt, calls, last,
          response_str, llm_response>>

\* the calendar service, and what is followed only when the chat session or
\* the parser is driven on its own
calVars == <<committed, cal_return>>
auxVars == <<system_prompt, calls, last, response_str, llm_response>>

----------------------------------------------------------------------------
(* Bounds of the model *)

\* longest event_data list a model reply holds
MaxCands == 2
\* the history is not let grow past this many messages
MaxHistory == 7
\* the wall clock runs from 0 to MaxClock
MaxClock == 1

----------------------------------------------------------------------------
(* Characters and texts *)

\* Among the characters, "dq" is the double quote, "bs" the backslash and
\* "e_acute" a non-ASCII letter.

Stages == <<"Propose", "Validate", "Select">>
StageSet == {"Propose", "Validate", "Select"}
StageKeys == StageSet \cup {"Single"}

RECURSIVE Concat(_)
Concat(ss) == IF ss = <<>> THEN <<>> ELSE Head(ss) \o Concat(Tail(ss))

\* t occurs in s as a contiguous run of characters (Python's `t in s`)
IsSubstring(t, s) ==
    \E i \in 0..(Len(s) - Len(t)) : SubSeq(s, i + 1, i + Len(t)) = t

\* str.find: 0-based index of the first c in s, -1 when there is none
Find(s, c) ==
    IF \E i \in 1..Len(s) : s[i] = c
    THEN (CHOOSE i \in 1..Len(s) : s[i] = c /\ \A j \in 1..(i - 1) : s[j] # c) - 1
    ELSE -1

\* str.rfind: 0-based index of the last c in s, -1 when there is none
RFind(s, c) ==
    IF \E i \in 1..Len(s) : s[i] = c
    THEN (CHOOSE i \in 1..Len(s) : s[i] = c /\ \A j \in (i + 1)..Len(s) : s[j] # c) - 1
    ELSE -1

\* s[a:b] with Python's treatment of negative and out-of-range indices
PySlice(s, a, b) ==
    LET n == Len(s)
        norm(i) == IF i < 0 THEN (IF i + n < 0 THEN 0 ELSE i + n)
                   ELSE (IF i > n THEN n ELSE i)
        lo == norm(a)
        hi == norm(b)
    IN  IF lo >= hi THEN <<>> ELSE SubSeq(s, lo + 1, hi)

----------------------------------------------------------------------------
(* Events and JSON objects *)

NoTime == "None"

\* data_models.Event.Event: the four fields the pipeline reads and writes
MkEvent(t, d, s, e) ==
    [title |-> t, description |-> d, start_time |-> s, end_time |-> e]

\* an element of event_data as the model wrote it: which keys it has, and
\* their values.  A time value is "T1"/"T2" (ISO-8601 text), "bad" (text
\* that is no ISO-8601 timestamp) or "null".
MkCand(ks, t, s, e) ==
    [keys |-> ks, title |-> t, description |-> "d", start_time |-> s, end_time |-> e]

AllCandKeys == {"title", "description", "start_time", "end_time"}

\* the members of a JSON object in a reply
MkObject(ks, ed, t, s, e) ==
    [keys |-> ks, event_data |-> ed, title |-> t, description |-> "d",
     start_time |-> s, end_time |-> e]

NoObject == MkObject({}, <<>>, <<>>, "null", "null")

MkText(cs, obj) == [chars |-> cs, object |-> obj]

EmptyText == MkText(<<>>, NoObject)
ErrorMarker == MkText(<<"Error: ", "x">>, NoObject)

\* the i-th candidate title a reply may hold
TitleOf(i) ==
    CASE i = 1 -> <<"a">>
      [] i = 2 -> <<"c", "e_acute">>
      [] i = 3 -> <<"a", "dq", "b">>
      [] OTHER -> <<"t", "a">>

----------------------------------------------------------------------------
(* json.dumps of the slots, and the prompts *)

\* json.dumps escapes the quote, the backslash and (ensure_ascii) every
\* non-ASCII character
JsonEscapeChar(c) ==
    CASE c = "dq" -> <<"bs", "dq">>
      [] c = "bs" -> <<"bs", "bs">>
      [] c = "e_acute" -> <<"bs", "u", "0", "0", "e", "9">>
      [] OTHER -> <<c>>

JsonEscape(s) == Concat([i \in 1..Len(s) |-> JsonEscapeChar(s[i])])

JsonString(s) == <<"dq">> \o JsonEscape(s) \o <<"dq">>

\* one slot_dict of json.dumps(slots_dicts, indent=2)
JsonSlot(slot) ==
    <<"{", "title:">> \o JsonString(slot.title)
        \o <<"start_time:", slot.start_time, "end_time:", slot.end_time, "}">>

JsonDumpsSlots(ss) == <<"[">> \o Concat([i \in 1..Len(ss) |-> JsonSlot(ss[i])]) \o <<"]">>

NoClock == -1

MkPrompt(k, sl, t, tc, ct) ==
    [kind |-> k, slots_json |-> sl, event_title |-> t,
     time_context |-> tc, current_time |-> ct]

\* no prompt built
NoPrompt == MkPrompt("NoPrompt", <<>>, <<>>, NoClock, NoClock)
\* Python's None, where a prompt is expected
PyNone == MkPrompt("None", <<>>, <<>>, NoClock, NoClock)

BuildInitialPrompt(ev, st) == MkPrompt("Propose", <<>>, ev.title, st, NoClock)

\* a plausible slip: the first proposed slot is left out of the dump
ValidationPromptDropsFirst(ev, st, now, proposed_slots) ==
    MkPrompt("Validate",
             JsonDumpsSlots(IF proposed_slots = <<>> THEN <<>> ELSE Tail(proposed_slots)),
             ev.title, st, now)

ValidationPrompt(ev, st, now, proposed_slots) ==
    MkPrompt("Validate", JsonDumpsSlots(proposed_slots), ev.title, st, now)

\* _selection_step builds its text and falls off the end without returning it
SelectionStep(ev, st, proposed_slots) == PyNone

BuildSchedulingPrompt(ev, now) == MkPrompt("Single", <<>>, ev.title, NoClock, now)

\* the text t occurs in what the prompt shows of the slots or of the event
PromptContains(p, t) ==
    /\ p.kind \notin {"None", "NoPrompt"}
    /\ \/ IsSubstring(t, p.slots_json)
       \/ IsSubstring(t, p.event_title)

----------------------------------------------------------------------------
(* The parser *)

\* a plausible slip: a text without braces is handed on whole
ExtractJsonWholeOnMiss(cs) ==
    IF Find(cs, "{") = -1 \/ RFind(cs, "}") = -1 THEN cs
    ELSE PySlice(cs, Find(cs, "{"), RFind(cs, "}") + 1)

\* a plausible slip: the slice ends at rfind, one short of the closing brace
ExtractJsonDropsLast(cs) == PySlice(cs, Find(cs, "{"), RFind(cs, "}"))

\* response_str[response_str.find("{") : response_str.rfind("}") + 1]
ExtractJson(cs) == PySlice(cs, Find(cs, "{"), RFind(cs, "}") + 1)

\* json.loads of the extracted span: an object with the reply's members, the
\* empty object, a lone number (which holds no member), or a JSONDecodeError
JsonLoads(span, obj) ==
    IF span = <<"{", "@", "}">> THEN [ok |-> TRUE, object |-> obj]
    ELSE IF span = <<"{", "}">> THEN [ok |-> TRUE, object |-> NoObject]
    ELSE IF span = <<"1">> THEN [ok |-> TRUE, object |-> NoObject]
    ELSE [ok |-> FALSE, object |-> NoObject]

\* pydantic's reading of a time value into Optional[datetime]
ParseTime(c, k) ==
    IF k \notin c.keys THEN NoTime
    ELSE IF c[k] = "null" THEN NoTime ELSE c[k]

\* a plausible slip: title declared with a default, like the other fields
ValidateEventTitleOptional(c) ==
    [ok |-> /\ ("start_time" \in c.keys => c.start_time # "bad")
            /\ ("end_time" \in c.keys => c.end_time # "bad"),
     event |-> MkEvent(IF "title" \in c.keys THEN c.title ELSE <<>>,
                       IF "description" \in c.keys THEN c.description ELSE "None",
                       ParseTime(c, "start_time"), ParseTime(c, "end_time"))]

\* Event.model_validate of one element of event_data
ValidateEvent(c) ==
    [ok |-> /\ "title" \in c.keys
            /\ ("start_time" \in c.keys => c.start_time # "bad")
            /\ ("end_time" \in c.keys => c.end_time # "bad"),
     event |-> MkEvent(IF "title" \in c.keys THEN c.title ELSE <<>>,
                       IF "description" \in c.keys THEN c.description ELSE "None",
                       ParseTime(c, "start_time"), ParseTime(c, "end_time"))]

\* LLMResponse.model_validate: event_data and error are both required fields
ModelValidate(obj) ==
    [ok |-> /\ "event_data" \in obj.keys
            /\ "error" \in obj.keys
            /\ \A i \in 1..Len(obj.event_data) : ValidateEvent(obj.event_data[i]).ok,
     event_data |-> [i \in 1..Len(obj.event_data) |-> ValidateEvent(obj.event_data[i]).event]]

ParseLLMResponse(text) ==
    LET j == JsonLoads(ExtractJson(text.chars), text.object)
        v == ModelValidate(j.object)
    IN  IF ~j.ok THEN [ok |-> FALSE, error |-> "JSONDecodeError", event_data |-> <<>>]
        ELSE IF ~v.ok THEN [ok |-> FALSE, error |-> "ValidationError", event_data |-> <<>>]
        ELSE [ok |-> TRUE, error |-> "none", event_data |-> v.event_data]

----------------------------------------------------------------------------
(* The chat session *)

SystemMsg == [role |-> "system", prompt |-> NoPrompt, text |-> MkText(<<"sys">>, NoObject)]
UserMsg(p) == [role |-> "user", prompt |-> p, text |-> EmptyText]
AssistantMsg(t) == [role |-> "assistant", prompt |-> NoPrompt, text |-> t]

\* the history right after construction (EventManager passes a system prompt)
SystemOnly == <<SystemMsg>>

\* `if self.system_prompt: messages.append(system message)`
SystemPart == IF system_prompt THEN <<SystemMsg>> ELSE <<>>

\* what client.chat may do: answer, raise ollama.ResponseError, raise otherwise
ChatOutcomes(texts) ==
    {[kind |-> "reply", text |-> t] : t \in texts}
        \cup {[kind |-> "ResponseError", text |-> EmptyText],
              [kind |-> "Exception", text |-> EmptyText]}

ReplyOf(o) ==
    CASE o.kind = "reply" -> o.text
      [] o.kind = "ResponseError" -> ErrorMarker
      [] OTHER -> EmptyText

\* a plausible slip: the request goes out before the prompt is appended
AskContinuousSendsBeforeAppend(msgs, p, o) ==
    LET m1 == Append(msgs, UserMsg(p))
    IN  [messages |-> IF o.kind = "reply" /\ o.text.chars # <<>>
                      THEN Append(m1, AssistantMsg(o.text)) ELSE m1,
         request |-> msgs,
         reply |-> ReplyOf(o)]

\* a plausible slip: the continuing query works on a fresh list, as ask does
AskContinuousStateless(msgs, p, o) ==
    [messages |-> msgs, request |-> Append(msgs, UserMsg(p)), reply |-> ReplyOf(o)]

AskContinuous(msgs, p, o) ==
    LET m1 == Append(msgs, UserMsg(p))
    IN  [messages |-> IF o.kind = "reply" /\ o.text.chars # <<>>
                      THEN Append(m1, AssistantMsg(o.text)) ELSE m1,
         request |-> m1,
         reply |-> ReplyOf(o)]

\* a plausible slip: the single-shot query sends and keeps the history
AskKeepsHistory(msgs, p, o) ==
    [messages |-> Append(msgs, UserMsg(p)), request |-> Append(msgs, UserMsg(p)),
     reply |-> ReplyOf(o)]

Ask(msgs, p, o) ==
    [messages |-> msgs, request |-> Append(SystemPart, UserMsg(p)), reply |-> ReplyOf(o)]

\* a plausible slip: the system message is appended without clearing the list
ResetMemoryAppends(msgs) == msgs \o SystemPart

ResetMemory(msgs) == SystemPart

----------------------------------------------------------------------------
(* What the model endpoint may answer *)

AllKeys == AllCandKeys \cup {"event_data", "error"}

\* the candidates a reply may list, and the lists it may hold: the
\* sub-lists of <<candidate 1, ..., candidate MaxCands>>
Candidate(i) == MkCand(AllCandKeys, TitleOf(i), "T1", "T2")

RECURSIVE SubLists(_)
SubLists(n) ==
    IF n = 0 THEN {<<>>}
    ELSE SubLists(n - 1) \cup {Append(l, Candidate(n)) : l \in SubLists(n - 1)}

CandLists == SubLists(MaxCands)

JsonText(obj) == MkText(<<"{", "@", "}">>, obj)
Prose == MkText(<<"x", "x">>, NoObject)

EventsObject(l) == MkObject({"event_data", "error"}, l, <<>>, "null", "null")

\* replies on the multi-step path: every candidate list as a well-formed
\* response, prose, the empty object, a response without the error key, and
\* the empty content
MultiReplies ==
    {JsonText(EventsObject(l)) : l \in CandLists}
        \cup {Prose, MkText(<<"{", "}">>, NoObject), EmptyText,
              JsonText(MkObject({"event_data"}, <<Candidate(1)>>, <<>>, "null", "null"))}

SlotObject(ks, s, e) == MkObject(ks, <<>>, TitleOf(1), s, e)

\* replies on the single-round path: a slot object with any of its keys
\* missing, with a time that is null or no ISO-8601 text, and prose
SingleReplies ==
    {JsonText(SlotObject(ks \cup {"error"}, "T1", "T2")) : ks \in SUBSET AllCandKeys}
        \cup {JsonText(SlotObject(AllKeys, "bad", "T2")),
              JsonText(SlotObject(AllKeys, "T1", "bad")),
              JsonText(SlotObject(AllKeys, "null", "T2")),
              JsonText(SlotObject(AllKeys, "T1", "null")),
              MkText(<<"x", "{", "@", "}", "x">>, SlotObject(AllKeys, "T1", "T2")),
              Prose, EmptyText}

\* the Event a caller hands to create_event
InputEvents == {MkEvent(<<"m">>, "d", NoTime, NoTime)}

----------------------------------------------------------------------------
(* State *)

NoReply == [got |-> FALSE, text |-> EmptyText]

\* no call made on the chat session yet
NoCall == [op |-> "none", prev_op |-> "none", prompt |-> NoPrompt, kind |-> "none",
           before |-> <<>>, request |-> <<>>, reply |-> EmptyText]

\* _parse_llm_response not called yet
NotParsed == [done |-> FALSE, ok |-> FALSE, error |-> "none", event_data |-> <<>>]

FreshCall ==
    /\ slots' = [s \in StageSet |-> <<>>]
    /\ prompts' = [k \in StageKeys |-> NoPrompt]
    /\ replies' = [k \in StageKeys |-> NoReply]
    /\ requests' = [k \in StageKeys |-> <<>>]
    /\ runLog' = <<>>
    /\ resets' = 0
    /\ logged' = FALSE
    /\ writes' = 0

\* no create_event call made yet
AtRest ==
    /\ pc = "Idle"
    /\ clock = 0
    /\ start_time = NoClock
    /\ event = MkEvent(<<>>, "None", NoTime, NoTime)
    /\ slots = [s \in StageSet |-> <<>>]
    /\ prompts = [k \in StageKeys |-> NoPrompt]
    /\ replies = [k \in StageKeys |-> NoReply]
    /\ requests = [k \in StageKeys |-> <<>>]
    /\ runLog = <<>>
    /\ resets = 0
    /\ result = "none"
    /\ error = "none"
    /\ logged = FALSE
    /\ calendar = <<>>
    /\ writes = 0
    /\ committed = <<>>
    /\ cal_return = "none"

Init ==
    /\ multi \in BOOLEAN
    /\ messages = SystemOnly
    /\ AtRest
    /\ system_prompt = TRUE
    /\ calls = <<>>
    /\ last = NoCall
    /\ response_str = EmptyText
    /\ llm_response = NotParsed

----------------------------------------------------------------------------
(* MultiStepReasoner.run *)

\* a plausible slip: the validation round is left out of run
NextPcSkipsValidate(stage) ==
    CASE stage = "Propose" -> "Select"
      [] OTHER -> "Terminal"

\* the order of the rounds in run
NextPc(stage) ==
    CASE stage = "Propose" -> "Validate"
      [] stage = "Validate" -> "Select"
      [] OTHER -> "Terminal"

\* a plausible slip: a failed parse is swallowed and the run goes on with
\* no candidates
AfterParseSwallows(stage, parsed) ==
    [pc |-> NextPc(stage), result |-> "running", error |-> "none",
     log |-> <<<<"parsed", stage>>>>]

\* the statement after _parse_llm_response: reached when it returned, and
\* the exception leaves run and create_event when it raised
AfterParse(stage, parsed) ==
    IF parsed.ok
    THEN [pc |-> NextPc(stage), result |-> "running", error |-> "none",
          log |-> <<<<"parsed", stage>>>>]
    ELSE [pc |-> "Idle", result |-> "raised", error |-> parsed.error, log |-> <<>>]

\* one round: ask_continuous(prompt), then _parse_llm_response
Round(stage, p, o) ==
    LET r == AskContinuous(messages, p, o)
        parsed == ParseLLMResponse(r.reply)
        after == AfterParse(stage, parsed)
    IN  /\ Len(messages) + 2 <= MaxHistory
        /\ messages' = r.messages
        /\ prompts' = [prompts EXCEPT ![stage] = p]
        /\ replies' = [replies EXCEPT ![stage] = [got |-> TRUE, text |-> r.reply]]
        /\ requests' = [requests EXCEPT ![stage] = r.request]
        /\ slots' = [slots EXCEPT ![stage] = parsed.event_data]
        /\ runLog' = runLog \o <<<<"query", stage>>>> \o after.log
        /\ pc' = after.pc
        /\ result' = after.result
        /\ error' = after.error
        /\ UNCHANGED <<multi, clock, start_time, event, resets, logged, calendar,
                       writes>>
        /\ UNCHANGED <<calVars, auxVars>>

\* create_event with multi set: list_events, MultiStepReasoner(...), run()
\* up to the first prompt
StartRun ==
    /\ pc = "Idle"
    /\ multi
    /\ Len(messages) + 2 <= MaxHistory
    /\ \E ev \in InputEvents : event' = ev
    /\ start_time' = clock
    /\ pc' = "Propose"
    /\ result' = "running"
    /\ error' = "none"
    /\ FreshCall
    /\ UNCHANGED <<multi, messages, clock, calendar>>
    /\ UNCHANGED <<calVars, auxVars>>

ProposeStage ==
    /\ pc = "Propose"
    /\ \E o \in ChatOutcomes(MultiReplies) :
           Round("Propose", BuildInitialPrompt(event, start_time), o)

ValidateStage ==
    /\ pc = "Validate"
    /\ \E o \in ChatOutcomes(MultiReplies) :
           Round("Validate", ValidationPrompt(event, start_time, clock, slots.Propose), o)

SelectStage ==
    /\ pc = "Select"
    /\ \E o \in ChatOutcomes(MultiReplies) :
           Round("Select", SelectionStep(event, start_time, slots.Validate), o)

\* a plausible slip: run returns without resetting the memory
FinishWithoutReset ==
    /\ pc = "Terminal"
    /\ pc' = "Idle"
    /\ IF slots.Select = <<>>
       THEN /\ result' = "raised"
            /\ error' = "IndexError"
            /\ UNCHANGED runLog
       ELSE /\ result' = "returned"
            /\ error' = "none"
            /\ runLog' = Append(runLog, <<"done", "Done">>)
    /\ UNCHANGED <<multi, messages, clock, start_time, event, slots, prompts,
                   replies, requests, resets, logged, calendar, writes>>
    /\ UNCHANGED <<calVars, auxVars>>

\* the end of run: the log line that reads event_data[0], reset_memory, and
\* create_event's return right after msr.run()
Finish ==
    /\ pc = "Terminal"
    /\ pc' = "Idle"
    /\ IF slots.Select = <<>>
       THEN /\ result' = "raised"
            /\ error' = "IndexError"
            /\ UNCHANGED <<messages, resets, runLog>>
       ELSE /\ messages' = ResetMemory(messages)
            /\ resets' = resets + 1
            /\ runLog' = Append(runLog, <<"done", "Done">>)
            /\ result' = "returned"
            /\ error' = "none"
    /\ UNCHANGED <<multi, clock, start_time, event, slots, prompts, replies,
                   requests, logged, calendar, writes>>
    /\ UNCHANGED <<calVars, auxVars>>

----------------------------------------------------------------------------
(* The single-round path of create_event *)

FindJson(cs) == PySlice(cs, Find(cs, "{"), RFind(cs, "}") + 1)

Handled(ev, err) ==
    [event |-> ev, write |-> FALSE, result |-> "returned", error |-> err, logged |-> TRUE]
Escaped(ev, err) ==
    [event |-> ev, write |-> FALSE, result |-> "raised", error |-> err, logged |-> FALSE]

Labelled(t) == <<"[Ollender] ">> \o t

\* a plausible slip: the except branch logs and falls through to the write
SingleOutcomeFallsThrough(ev, text) ==
    LET j == JsonLoads(FindJson(text.chars), text.object)
    IN  [event |-> ev, write |-> TRUE, result |-> "returned",
         error |-> IF j.ok THEN "KeyError" ELSE "JSONDecodeError", logged |-> TRUE]

\* the try block, its except clause and the calendar write after it
SingleOutcome(ev, text) ==
    LET j == JsonLoads(FindJson(text.chars), text.object)
        d == j.object
        e1 == [ev EXCEPT !.title = Labelled(d.title)]
        e2 == [e1 EXCEPT !.description = d.description]
        e3 == [e2 EXCEPT !.start_time = d.start_time]
        e4 == [e3 EXCEPT !.end_time = d.end_time]
    IN  IF ~j.ok THEN Handled(ev, "JSONDecodeError")
        ELSE IF "title" \notin d.keys THEN Handled(ev, "KeyError")
        ELSE IF "description" \notin d.keys THEN Handled(e1, "KeyError")
        ELSE IF "start_time" \notin d.keys THEN Handled(e2, "KeyError")
        ELSE IF d.start_time = "bad" THEN Escaped(e2, "ValueError")
        ELSE IF d.start_time = "null" THEN Escaped(e2, "TypeError")
        ELSE IF "end_time" \notin d.keys THEN Handled(e3, "KeyError")
        ELSE IF d.end_time = "bad" THEN Escaped(e3, "ValueError")
        ELSE IF d.end_time = "null" THEN Escaped(e3, "TypeError")
        ELSE [event |-> e4, write |-> TRUE, result |-> "returned",
              error |-> "none", logged |-> FALSE]

\* the calendar is not let grow past this many events
MaxCalendar == 2

\* GoogleCalendarConnector.create_event sets debug = True
debug == TRUE

\* what the insert request of the calendar service may do
CalendarOutcomes == {"inserted", "HttpError"}

\* GoogleCalendarConnector.create_event: the body is built from the event
\* and, under debug, the method returns before the insert request
CalendarCreateEvent(ev, api) ==
    IF debug THEN [inserted |-> FALSE, ret |-> "None"]
    ELSE IF api = "inserted" THEN [inserted |-> TRUE, ret |-> "event"]
    ELSE [inserted |-> FALSE, ret |-> "raised"]

SingleRound ==
    /\ pc = "Idle"
    /\ ~multi
    /\ Len(calendar) < MaxCalendar
    /\ \E ev \in InputEvents, o \in ChatOutcomes(SingleReplies), api \in CalendarOutcomes :
           LET p == BuildSchedulingPrompt(ev, clock)
               r == Ask(messages, p, o)
               out == SingleOutcome(ev, r.reply)
               cal == CalendarCreateEvent(out.event, api)
               threw == out.write /\ cal.ret = "raised"
           IN  /\ slots' = [s \in StageSet |-> <<>>]
               /\ runLog' = <<>>
               /\ resets' = 0
               /\ messages' = r.messages
               /\ prompts' = [[k \in StageKeys |-> NoPrompt] EXCEPT !.Single = p]
               /\ replies' = [[k \in StageKeys |-> NoReply] EXCEPT
                                 !.Single = [got |-> TRUE, text |-> r.reply]]
               /\ requests' = [[k \in StageKeys |-> <<>>] EXCEPT !.Single = r.request]
               /\ event' = out.event
               /\ calendar' = IF out.write THEN Append(calendar, out.event) ELSE calendar
               /\ writes' = IF out.write THEN 1 ELSE 0
               /\ committed' = IF out.write /\ cal.inserted
                                THEN Append(committed, out.event) ELSE committed
               /\ cal_return' = IF out.write THEN cal.ret ELSE "none"
               /\ result' = IF threw THEN "raised" ELSE out.result
               /\ error' = IF threw THEN "HttpError" ELSE out.error
               /\ logged' = out.logged
    /\ UNCHANGED <<multi, pc, clock, start_time>>
    /\ UNCHANGED auxVars

Tick ==
    /\ clock < MaxClock
    /\ clock' = clock + 1
    /\ UNCHANGED <<multi, messages, pc, start_time, event, slots, prompts, replies,
                   requests, runLog, resets, result, error, logged, calendar,
                   writes>>
    /\ UNCHANGED <<calVars, auxVars>>

Next ==
    \/ StartRun
    \/ ProposeStage
    \/ ValidateStage
    \/ SelectStage
    \/ Finish
    \/ SingleRound
    \/ Tick

Spec == Init /\ [][Next]_vars

----------------------------------------------------------------------------
(* The chat session driven on its own: any sequence of ask, ask_continuous
   and reset_memory on one OllamaConnector, with or without a system prompt *)

\* ask_continuous calls between two resets
MaxCalls == 3

SessionPrompts == {MkPrompt("Propose", <<>>, <<"m">>, 0, NoClock),
                   MkPrompt("Single", <<>>, <<"m">>, NoClock, 0)}

SessionReplies == {Prose, EmptyText}

mainVars == <<multi, pc, clock, start_time, event, slots, prompts, replies,
              requests, runLog, resets, result, error, logged, calendar, writes>>

InitSession ==
    /\ system_prompt \in BOOLEAN
    /\ messages = SystemPart
    /\ multi = FALSE
    /\ AtRest
    /\ calls = <<>>
    /\ last = NoCall
    /\ response_str = EmptyText
    /\ llm_response = NotParsed

SessionCall(op, p, o, r) ==
    [op |-> op, prev_op |-> last.op, prompt |-> p, kind |-> o.kind,
     before |-> messages, request |-> r.request, reply |-> r.reply]

SessionAskContinuous ==
    /\ Len(calls) < MaxCalls
    /\ \E p \in SessionPrompts, o \in ChatOutcomes(SessionReplies) :
           LET r == AskContinuous(messages, p, o)
           IN  /\ messages' = r.messages
               /\ calls' = Append(calls, [prompt |-> p, kind |-> o.kind,
                                          request |-> r.request, reply |-> r.reply])
               /\ last' = SessionCall("ask_continuous", p, o, r)
    /\ UNCHANGED <<mainVars, calVars, system_prompt, response_str, llm_response>>

SessionAsk ==
    /\ \E p \in SessionPrompts, o \in ChatOutcomes(SessionReplies) :
           LET r == Ask(messages, p, o)
           IN  /\ messages' = r.messages
               /\ last' = SessionCall("ask", p, o, r)
    /\ UNCHANGED <<mainVars, calVars, system_prompt, calls, response_str, llm_response>>

SessionReset ==
    /\ messages' = ResetMemory(messages)
    /\ calls' = <<>>
    /\ last' = [op |-> "reset", prev_op |-> last.op, prompt |-> NoPrompt, kind |-> "none",
                before |-> messages, request |-> <<>>, reply |-> EmptyText]
    /\ UNCHANGED <<mainVars, calVars, system_prompt, response_str, llm_response>>

NextSession ==
    \/ SessionAskContinuous
    \/ SessionAsk
    \/ SessionReset

SpecSession == InitSession /\ [][NextSession]_vars

----------------------------------------------------------------------------
(* The parser driven on its own: _parse_llm_response on any short text *)

\* longest text handed to the parser
MaxTextLen == 5

\* a brace, prose, the members of an object, a digit
ParseAlphabet == {"{", "}", "x", "@", "1"}

ParseChars == UNION {[1..n -> ParseAlphabet] : n \in 0..MaxTextLen}

HasMembers(cs) == \E i \in 1..Len(cs) : cs[i] = "@"

\* the members the object of a text may have
ParseObjects ==
    {EventsObject(<<Candidate(1), Candidate(2)>>),
     EventsObject(<<Candidate(1)>>),
     EventsObject(<<>>),
     MkObject({"event_data"}, <<Candidate(1)>>, <<>>, "null", "null"),
     MkObject({"error"}, <<>>, <<>>, "null", "null"),
     EventsObject(<<Candidate(1), MkCand(AllCandKeys \ {"title"}, <<>>, "T1", "T2")>>),
     EventsObject(<<MkCand(AllCandKeys \ {"description"}, TitleOf(2), "T1", "T2")>>),
     EventsObject(<<MkCand(AllCandKeys, TitleOf(1), "bad", "T2")>>)}

ParseTexts ==
    {MkText(cs, NoObject) : cs \in {c \in ParseChars : ~HasMembers(c)}}
        \cup {MkText(cs, obj) : cs \in {c \in ParseChars : HasMembers(c)},
                                obj \in ParseObjects}

InitParse ==
    /\ response_str \in ParseTexts
    /\ llm_response = NotParsed
    /\ system_prompt = TRUE
    /\ messages = SystemOnly
    /\ multi = FALSE
    /\ AtRest
    /\ calls = <<>>
    /\ last = NoCall

Done(r) == [done |-> TRUE, ok |-> r.ok, error |-> r.error, event_data |-> r.event_data]

ParseResponse ==
    /\ ~llm_response.done
    /\ llm_response' = Done(ParseLLMResponse(response_str))
    /\ UNCHANGED <<mainVars, calVars, messages, system_prompt, calls, last, response_str>>

NextParse == ParseResponse

SpecParse == InitParse /\ [][NextParse]_vars

----------------------------------------------------------------------------
(* Properties *)

IsPrefix(a, b) == Len(a) <= Len(b) /\ a = SubSeq(b, 1, Len(a))

\* what a run that succeeds does, in order
CanonicalLog ==
    <<<<"query", "Propose">>, <<"parsed", "Propose">>,
      <<"query", "Validate">>, <<"parsed", "Validate">>,
      <<"query", "Select">>, <<"parsed", "Select">>,
      <<"done", "Done">>>>

\* the reply is text that json.loads rejects
NotJson(text) == ~JsonLoads(ExtractJson(text.chars), text.object).ok

\* C1: within a run the rounds go Propose, Validate, Select, Done in that
\* order: what the run has done is always an initial part of "query
\* Propose, parse Propose, query Validate, parse Validate, query Select,
\* parse Select, done", so every round queries once, only after the round
\* before it was parsed, and none is entered twice; and the run stands at
\* the round that follows what it has done.
C1_StagesInStrictOrder ==
    /\ IsPrefix(runLog, CanonicalLog)
    /\ pc = "Propose" => runLog = <<>>
    /\ pc = "Validate" => Len(runLog) = 2
    /\ pc = "Select" => Len(runLog) = 4
    /\ pc = "Terminal" => Len(runLog) = 6

C1_Witness ==
    multi /\ pc = "Idle" /\ result = "returned" /\ runLog = CanonicalLog

\* C2: the memory is reset at most once in a run, only after the Select
\* response was parsed, and exactly once in a run that returns; the history
\* a returned run leaves is the system directive alone.
C2_ResetOncePerSuccessfulRun ==
    /\ resets <= 1
    /\ resets = 1 => (Len(runLog) >= 6 /\ runLog[6] = <<"parsed", "Select">>)
    /\ (multi /\ result = "returned") => (resets = 1 /\ messages = SystemOnly)

C2_Witness ==
    multi /\ result = "returned" /\ resets = 1 /\ replies.Select.got

\* C3: when the response of a round fails to parse or to validate, the run
\* has done nothing past that round's one query, it has ended with that
\* failure raised, no later round built a prompt or queried, and the memory
\* was not reset.
C3_FailureStopsTheRun ==
    \A i \in 1..3 :
        (replies[Stages[i]].got /\ ~ParseLLMResponse(replies[Stages[i]].text).ok)
            => /\ runLog = SubSeq(CanonicalLog, 1, 2 * i - 1)
               /\ pc = "Idle"
               /\ result = "raised"
               /\ error \in {"JSONDecodeError", "ValidationError"}
               /\ resets = 0
               /\ \A j \in (i + 1)..3 :
                      prompts[Stages[j]] = NoPrompt /\ ~replies[Stages[j]].got

C3_Witness ==
    /\ replies.Validate.got
    /\ ~ParseLLMResponse(replies.Validate.text).ok
    /\ error = "ValidationError"
    /\ result = "raised"

\* C4: when the Propose round gets text that is not JSON, the run ends with
\* the JSON decoding error raised, nothing is written to the calendar, and
\* the history still holds the Propose prompt as a user message.
C4_ProseAtProposeLeaksPrompt ==
    (replies.Propose.got /\ replies.Propose.text.chars # <<>>
        /\ NotJson(replies.Propose.text))
        => /\ result = "raised"
           /\ error = "JSONDecodeError"
           /\ writes = 0
           /\ calendar = <<>>
           /\ \E i \in 1..Len(messages) : messages[i] = UserMsg(prompts.Propose)

C4_Witness ==
    /\ replies.Propose.got
    /\ replies.Propose.text = Prose
    /\ result = "raised"
    /\ Len(messages) >= 3

\* C5 (as claimed): a multi-step call that returns has written one event to
\* the calendar, the first candidate of the Select response under the
\* "[Ollender] " label.
C5_MultiCommitsFirstCandidate ==
    (multi /\ result = "returned")
        => /\ writes = 1
           /\ calendar # <<>>
           /\ calendar[Len(calendar)] =
                  [slots.Select[1] EXCEPT !.title = Labelled(slots.Select[1].title)]

\* C6 (as claimed): the prompt of the Select query shows every title of the
\* parsed Validate response, verbatim or as JSON writes it.
C6_SelectPromptHasTitles ==
    replies.Select.got
        => \A i \in 1..Len(slots.Validate) :
               \/ PromptContains(prompts.Select, slots.Validate[i].title)
               \/ PromptContains(prompts.Select, JsonString(slots.Validate[i].title))

C8_WriteOnlyAfterTerminalCandidate ==
    /\ writes <= 1
    /\ writes = 1 =>
           /\ ~multi
           /\ replies.Single.got
           /\ ~NotJson(replies.Single.text)
           /\ result = "returned"
           /\ error = "none"
           /\ event.start_time \in {"T1", "T2"}
           /\ event.end_time \in {"T1", "T2"}
           /\ calendar # <<>>
           /\ calendar[Len(calendar)] = event
    /\ \A k \in StageKeys : (replies[k].got /\ NotJson(replies[k].text)) => writes = 0
    /\ \A k \in StageSet :
           (replies[k].got /\ ~ParseLLMResponse(replies[k].text).ok) => writes = 0

C8_Witness ==
    writes = 1 /\ replies.Single.text.chars = <<"x", "{", "@", "}", "x">>

\* C9 (as claimed): a create_event call that met a failure has logged it
\* and returned to its caller.
C9_FailuresLoggedAndReturned ==
    error # "none" => (result = "returned" /\ logged)

\* C10 (as claimed): every run starts with a history that holds the system
\* directive alone.
C10_RunStartsWithCleanHistory ==
    pc = "Propose" => messages = SystemOnly


\* the (user, assistant) pairs of the calls cs, in call order
Pairs(cs) ==
    Concat([i \in 1..Len(cs) |-> <<UserMsg(cs[i].prompt), AssistantMsg(cs[i].reply)>>])

PairsInOrder(good(_)) ==
    (\A i \in 1..Len(calls) : good(calls[i]))
        => /\ messages = SystemPart \o Pairs(calls)
           /\ \A i \in 1..Len(calls) :
                  calls[i].request =
                      SystemPart \o Pairs(SubSeq(calls, 1, i - 1))
                          \o <<UserMsg(calls[i].prompt)>>

Returned(c) == c.kind = "reply"
ReturnedText(c) == c.kind = "reply" /\ c.reply.chars # <<>>

\* C11 (as claimed): when every ask_continuous call since construction or
\* the last reset succeeded (client.chat returned), the history is the system
\* directive, if any, followed by one (user, assistant) pair per call in call
\* order, and each request carried the earlier pairs plus its own prompt.
C11_PairsAfterReturnedCalls == PairsInOrder(Returned)

\* C11 (amended): the same, when every call since construction or the last
\* reset returned a non-empty reply.
C11_PairsAfterNonEmptyReplies == PairsInOrder(ReturnedText)

C11_Witness ==
    /\ Len(calls) = 2
    /\ ReturnedText(calls[1]) /\ ReturnedText(calls[2])
    /\ calls[1].prompt # calls[2].prompt
    /\ last.op = "ask_continuous"

\* C12 (as claimed): an ask_continuous call that failed returned the empty
\* text, and left the history as it was before the call plus the user
\* prompt.
C12_FailureReturnsEmpty ==
    (last.op = "ask_continuous" /\ last.kind \in {"ResponseError", "Exception"})
        => /\ last.reply = EmptyText
           /\ messages = Append(last.before, UserMsg(last.prompt))

\* C13: a call to ask, whatever came of it, leaves the history as it was
\* and sends the system directive, if any, followed by the prompt alone.
C13_AskIsStateless ==
    last.op = "ask"
        => /\ messages = last.before
           /\ last.request =
                  (IF system_prompt THEN <<SystemMsg>> ELSE <<>>) \o <<UserMsg(last.prompt)>>

C13_Witness ==
    last.op = "ask" /\ last.kind = "ResponseError" /\ Len(messages) >= 3

\* C14: after reset_memory the history is the system message alone when a
\* system prompt is set and empty otherwise, and a reset that follows a
\* reset leaves the history as it found it.
C14_ResetLeavesDirectiveOnly ==
    last.op = "reset"
        => /\ messages = (IF system_prompt THEN <<SystemMsg>> ELSE <<>>)
           /\ last.prev_op = "reset" => messages = last.before

C14_Witness ==
    last.op = "reset" /\ last.prev_op = "reset" /\ system_prompt


\* the text has no "{", or no "}" after its first "{"
NoMatchingBraces(cs) == Find(cs, "{") = -1 \/ RFind(cs, "}") < Find(cs, "{")

\* C15: for a text with no "{" or with no "}" after its first "{", the
\* empty text included, the parser fails with the JSON decoding error and
\* returns no response.
C15_NoBracesIsParseError ==
    (llm_response.done /\ NoMatchingBraces(response_str.chars))
        => /\ ~llm_response.ok
           /\ llm_response.error = "JSONDecodeError"
           /\ llm_response.event_data = <<>>

C15_Witness ==
    /\ llm_response.done
    /\ response_str.chars = <<"}", "1", "{">>
    /\ llm_response.error = "JSONDecodeError"

\* the object json.loads reads out of the text, when it reads one
Loaded(t) == JsonLoads(ExtractJson(t.chars), t.object)
IsPayload(t) == Loaded(t).ok /\ "event_data" \in Loaded(t).object.keys

Lacks(obj, k) == \E i \in 1..Len(obj.event_data) : k \notin obj.event_data[i].keys

OneObjectAt(cs, i) ==
    /\ i + 2 <= Len(cs)
    /\ SubSeq(cs, i, i + 2) = <<"{", "@", "}">>
    /\ LET rest == SubSeq(cs, 1, i - 1) \o <<"x">> \o SubSeq(cs, i + 3, Len(cs))
       IN  ~HasMembers(rest) /\ ~IsSubstring(<<"{", "}">>, rest)

\* the object matches the wire contract: event_data and error, every
\* element with its four fields and readable times
MatchesSchema(obj) ==
    /\ obj.keys = {"event_data", "error"}
    /\ \A i \in 1..Len(obj.event_data) :
           /\ obj.event_data[i].keys = AllCandKeys
           /\ obj.event_data[i].start_time \in {"T1", "T2"}
           /\ obj.event_data[i].end_time \in {"T1", "T2"}

\* the parser returned the candidates of obj, in order
ReturnsCandidates(obj) ==
    /\ llm_response.ok
    /\ Len(llm_response.event_data) = Len(obj.event_data)
    /\ \A k \in 1..Len(obj.event_data) :
           llm_response.event_data[k] =
               MkEvent(obj.event_data[k].title, obj.event_data[k].description,
                       obj.event_data[k].start_time, obj.event_data[k].end_time)

\* C17 (as claimed): a text that holds one object matching the schema,
\* with any prose before and after it, parses to that object's candidates
\* in order.
C17_OneObjectInAnyProse ==
    \A i \in 1..Len(response_str.chars) :
        (llm_response.done /\ OneObjectAt(response_str.chars, i)
            /\ MatchesSchema(response_str.object))
            => ReturnsCandidates(response_str.object)

\* C17 (amended): the same, when the prose before the object holds no "{"
\* and the prose after it holds no "}".
C17_OneObjectInBraceFreeProse ==
    \A i \in 1..Len(response_str.chars) :
        (llm_response.done /\ OneObjectAt(response_str.chars, i)
            /\ MatchesSchema(response_str.object)
            /\ Find(response_str.chars, "{") = i - 1
            /\ RFind(response_str.chars, "}") = i + 1)
            => ReturnsCandidates(response_str.object)

C17_Witness ==
    /\ llm_response.done
    /\ response_str.chars = <<"}", "{", "@", "}", "{">>
    /\ llm_response.ok
    /\ Len(llm_response.event_data) = 2

\* C18 (as claimed): a payload with a valid event_data and no error key is
\* accepted, with the result the same payload with "error": null gets.
C18_ErrorKeyIsOptional ==
    (llm_response.done /\ Loaded(response_str).ok
        /\ Loaded(response_str).object.keys = {"event_data"}
        /\ MatchesSchema([Loaded(response_str).object EXCEPT !.keys = @ \cup {"error"}]))
        => /\ llm_response.ok
           /\ llm_response =
                  Done(ParseLLMResponse(
                      MkText(response_str.chars,
                             [response_str.object EXCEPT !.keys = @ \cup {"error"}])))


\* the current-time values a prompt embeds
EmbeddedTimes(p) == {p.time_context, p.current_time} \ {NoClock}

\* C19 (as claimed): the only current time the prompts of a run embed is
\* the one read at the start of the run.
C19_OneNowInAllPrompts ==
    \A s \in StageSet : EmbeddedTimes(prompts[s]) \subseteq {start_time}

\* C20 (as claimed): a calendar.create_event call, made with an Event that
\* has its start and end, has either inserted the event and returned it or
\* raised a failure.
C20_CreateEventCommitsOrFails ==
    (writes = 1 /\ event.start_time # NoTime /\ event.end_time # NoTime)
        => \/ /\ cal_return = "event"
              /\ committed # <<>>
              /\ committed[Len(committed)] = event
           \/ cal_return = "raised"


\* every round of the run got a reply that parsed and passed validation
AllRoundsParsed ==
    \A s \in StageSet : replies[s].got /\ ParseLLMResponse(replies[s].text).ok

\* C21 (as claimed): a run whose three replies all parse and validate ends
\* at Done with the memory reset, whatever the number of candidates in each
\* reply, an empty Select list included.
C21_ParsedRunReachesDone ==
    (multi /\ pc = "Idle" /\ AllRoundsParsed)
        => /\ result = "returned"
           /\ runLog = CanonicalLog
           /\ resets = 1
           /\ messages = SystemOnly

\* the single-round call ended in its except branch: the reply was no
\* JSON, or the object lacked one of the four keys
SingleFailed ==
    /\ ~multi
    /\ replies.Single.got
    /\ error \in {"JSONDecodeError", "KeyError"}

\* C22 (as claimed): after a single-round call that failed to turn the
\* reply into a slot, the caller's Event is as it was handed in.
C22_FailedSingleLeavesEventUnchanged ==
    SingleFailed => event \in InputEvents

====
